---- MODULE Spec2Model ----
(***************************************************************************)
(* Access-control and session coordination core of the document           *)
(* collaboration application: the server actions of                        *)
(* src/lib/actions/room.actions.ts run against the remote room store       *)
(* (Liveblocks) and the notification sink, and the document page that      *)
(* consumes them.                                                          *)
(*                                                                         *)
(* Every server action is an async function.  An invocation occupies a     *)
(* slot of `calls'; one action of the model starts it (the synchronous     *)
(* code up to the first await) and one action per awaited external call    *)
(* performs that call together with all the synchronous code that follows  *)
(* it up to the next await or the return.  Invocations in different slots  *)
(* interleave at the awaits, as concurrent requests do.                    *)
(***************************************************************************)
EXTENDS Naturals, Sequences, FiniteSets, TLC

\* ------------------------------------------------------------------ bounds
\* Invocations started in one behaviour.
MaxCalls == 3
\* Rooms created in one behaviour: the ids nanoid() hands out are 1..MaxRooms.
MaxRooms == 1

\* ------------------------------------------------------------- input sets
\* Concurrent invocations; a new one takes the lowest free slot.
Slots == {1, 2}
RoomIds == 1..MaxRooms
Emails == {"a@x.com", "b@x.com", "C@x.com"}
\* Accounts of the identity provider: <<id, email>>.  C@x.com has none.
ClerkAccounts == {<<"user_a", "a@x.com">>, <<"user_b", "b@x.com">>}
\* The signed-in account that creates documents and shares them.
Creators == {<<"user_a", "a@x.com">>}
Actors == {"a@x.com"}
\* 'Untitled' is the title createDocument stores; "Plan" is a typed title.
Titles == {"Untitled", "Plan"}
\* UserType is 'creator' | 'editor' | 'viewer'; "admin" stands for any value
\* outside the type that reaches the server action at run time.
UserTypes == {"creator", "editor", "viewer", "admin"}

\* ------------------------------------------------------------ JS values
\* undefined (the value of a function that ends without return)
Undefined == [tag |-> "undefined"]
\* the store holds no room under an id
NoRoom == [tag |-> "none"]
\* null as the value of a usersAccesses key
Null == <<>>
\* a value thrown to the caller
Thrown(e) == [tag |-> "throw", error |-> e]
EmptyMap == <<>>

RootPath == <<"/", 0>>
DocumentPath(roomId) == <<"/documents", roomId>>

StoreError == "StoreError"
NoAccessError == "You do not have access to this document"
SelfRemovalError == "You cannot remove yourself from the document"
RedirectError == "NEXT_REDIRECT"

VARIABLES
  rooms,       \* the room store: room id -> room record or NoRoom
  nanoCount,   \* ids handed out by nanoid() for rooms
  inbox,       \* notifications the sink accepted, in order
  calls,       \* slot -> the invocation in flight in it, or Idle
  last,        \* the invocation that completed last, as its caller sees it
  started,     \* invocations started so far
  tab          \* the document page open in the browser tab, or ClosedTab

vars == <<rooms, nanoCount, inbox, calls, last, started, tab>>

\* ------------------------------------------------------------ access policy
getAccessType_DefaultWrites(userType) ==
  CASE userType = "creator" -> <<"room:write">>
    [] userType = "editor" -> <<"room:write">>
    [] userType = "viewer" -> <<"room:read", "room:presence:write">>
    [] OTHER -> <<"room:read", "room:presence:write", "room:write">>

getAccessType(userType) ==
  CASE userType = "creator" -> <<"room:write">>
    [] userType = "editor" -> <<"room:write">>
    [] userType = "viewer" -> <<"room:read", "room:presence:write">>
    [] OTHER -> <<"room:read", "room:presence:write">>

Includes(seq, x) == \E i \in 1..Len(seq) : seq[i] = x

\* ------------------------------------------------------------------ store
\* Partial update of a string-keyed map: keys of the patch replace, the
\* others are kept.
MergeMap(old, patch) ==
  [k \in DOMAIN old \cup DOMAIN patch |->
     IF k \in DOMAIN patch THEN patch[k] ELSE old[k]]

\* Partial update of usersAccesses: a null value removes the grant, as a
\* deleted key or, when the store keeps tombstones, as a key holding null.
MergeAccesses(old, patch, tombstones) ==
  LET removed == {k \in DOMAIN patch : patch[k] = Null}
      keys == IF tombstones
                THEN DOMAIN old \cup DOMAIN patch
                ELSE (DOMAIN old \cup DOMAIN patch) \ removed
  IN  [k \in keys |-> IF k \in DOMAIN patch THEN patch[k] ELSE old[k]]

\* create(id, {metadata, usersAccesses, defaultAccesses})
StoreCreateRoom(id, data) ==
  [tag |-> "room", id |-> id, metadata |-> data.metadata,
   usersAccesses |-> data.usersAccesses,
   defaultAccesses |-> data.defaultAccesses]

\* update(id, partial) -> record, by a store that keeps tombstones or not
StoreUpdateRoomAs(room, patch, tombstones) ==
  [room EXCEPT !.metadata = MergeMap(room.metadata, patch.metadata),
               !.usersAccesses = MergeAccesses(room.usersAccesses,
                                               patch.usersAccesses, tombstones)]

\* update(id, partial) -> record
StoreUpdateRoom(room, patch) == StoreUpdateRoomAs(room, patch, FALSE)

\* ------------------------------------------------------------ invocations
\* An invocation: its arguments, the await it is at, and what it has done so
\* far (external calls completed and whether each succeeded, notification
\* requests sent, paths revalidated, messages logged, value returned or
\* thrown).
Idle ==
  [op |-> "idle", pc |-> "idle", roomId |-> 0, userId |-> "", email |-> "",
   title |-> "", userType |-> "", updatedBy |-> "", patch |-> EmptyMap,
   ret |-> Undefined, logged |-> <<>>, io |-> <<>>, emitted |-> <<>>,
   revalidated |-> {},
   \* the handler of the tab that made the call ("" for any other caller),
   \* the role its page was rendered for, the title the page was loaded
   \* with, and whether the handler still awaits the result
   via |-> "", currentUserType |-> "", loadedTitle |-> "", awaited |-> FALSE]

Log(prefix, error) == [prefix |-> prefix, error |-> error]
Did(c, call, ok) == [c EXCEPT !.io = Append(@, [call |-> call, ok |-> ok])]
Revalidate(c, path) == [c EXCEPT !.revalidated = @ \cup {path}]
ReturnValue(c, value) == [c EXCEPT !.pc = "done", !.ret = value]
\* a catch block that logs and falls off the end of the function
CatchAndLog(c, prefix, error) ==
  [c EXCEPT !.pc = "done", !.ret = Undefined,
            !.logged = Append(@, Log(prefix, error))]
\* a catch block that logs and throws the error again
CatchAndRethrow(c, prefix, error) ==
  [c EXCEPT !.pc = "done", !.ret = Thrown(error),
            !.logged = Append(@, Log(prefix, error))]

\* Room ids an invocation can be given: those nanoid() has handed out, the
\* program's only source of room ids (one whose createRoom failed names no
\* room, as any other unknown id).
\* ------------------------------------------------------- the title editor
\* State of CollaborativeRoom's title editor while the title `title' is
\* typed in: the useState values, and what the handler did with an error.
TitleEditor(title) ==
  [editing |-> TRUE, documentTitle |-> title, loading |-> FALSE,
   consoleError |-> <<>>, unhandledRejection |-> <<>>]

\* The editor after Enter was pressed and updateDocument ended with `result'
\* (a room, or a thrown error): the call is awaited inside try/catch, and
\* edit mode is left only when a room came back.
updateTitleHandler(ui, result) ==
  IF result.tag = "throw"
    THEN [ui EXCEPT !.loading = FALSE, !.consoleError = Append(@, result.error)]
    ELSE [ui EXCEPT !.loading = FALSE,
                    !.editing = IF result.tag = "room" THEN FALSE ELSE @]

\* The editor after a mousedown outside the title container, updateDocument
\* having ended with `result': edit mode is left first, then the call is made
\* without await or catch, so a thrown error is an unhandled rejection.
handleClickOutside(ui, result) ==
  IF result.tag = "throw"
    THEN [ui EXCEPT !.editing = FALSE,
                    !.unhandledRejection = Append(@, result.error)]
    ELSE [ui EXCEPT !.editing = FALSE]

\* ------------------------------------------------------ the delete dialog
\* DeleteModal while its dialog is open and the Delete button is pressed.
DeleteModal == [open |-> TRUE, loading |-> TRUE, consoleLog |-> <<>>]

\* The dialog after deleteDocument ended with `result': the call is awaited
\* inside try/catch and the dialog is closed unless the call threw.
deleteDocumentHandler(ui, result) ==
  IF result.tag = "throw"
    THEN [ui EXCEPT !.loading = FALSE, !.consoleLog = Append(@, result.error)]
    ELSE [ui EXCEPT !.loading = FALSE, !.open = FALSE]

\* ------------------------------------------------------ the document page
\* No document page is open in the tab.
ClosedTab ==
  [open |-> FALSE, roomId |-> 0, email |-> "", currentUserType |-> "",
   title |-> "", creatorId |-> "",
   titleEditor |-> [TitleEditor("") EXCEPT !.editing = FALSE],
   share |-> [loading |-> FALSE],
   rows |-> EmptyMap,
   deleteModal |-> [DeleteModal EXCEPT !.open = FALSE, !.loading = FALSE]]

\* What follows the await in the handler that made the call c, once c has
\* ended: updateTitleHandler and deleteDocumentHandler catch a thrown error,
\* the two shareDocumentHandlers and removeCollaboratorHandler have no
\* try/catch, so a thrown error would skip their setLoading(false).
Resume(page, c) ==
  IF ~(c.pc = "done" /\ c.awaited) THEN page
  ELSE CASE c.via = "updateTitleHandler" ->
              [page EXCEPT !.titleEditor = updateTitleHandler(@, c.ret)]
         [] c.via = "ShareModal.shareDocumentHandler" ->
              IF c.ret.tag = "throw" THEN page
              ELSE [page EXCEPT !.share.loading = FALSE]
         [] c.via \in {"Collaborator.shareDocumentHandler", "removeCollaboratorHandler"} ->
              IF c.ret.tag = "throw" THEN page
              ELSE [page EXCEPT !.rows[c.email].loading = FALSE]
         [] c.via = "deleteDocumentHandler" ->
              [page EXCEPT !.deleteModal = deleteDocumentHandler(@, c.ret)]
         [] OTHER -> page

KnownRoomIds == 1..nanoCount

CanStart(s) ==
  /\ calls[s].op = "idle"
  /\ \A t \in Slots : t < s => calls[t].op # "idle"
  /\ started < MaxCalls

Launch(s, c) ==
  /\ CanStart(s)
  /\ calls' = [calls EXCEPT ![s] = c]
  /\ started' = started + 1
  /\ last' = last

\* A call made by a caller other than the tab.
Begin(s, c) == Launch(s, c) /\ tab' = tab

\* The invocation in slot s goes on as c: to its next await, or, when it is
\* done, back to its caller, which frees the slot.
Continue(s, c) ==
  /\ IF c.pc = "done"
       THEN calls' = [calls EXCEPT ![s] = Idle] /\ last' = c
       ELSE calls' = [calls EXCEPT ![s] = c] /\ last' = last
  /\ tab' = Resume(tab, c)

\* The invocation in slot s awaits the external call `pc'.
At(s, op, pc) == calls[s].op = op /\ calls[s].pc = pc

\* ---------------------------------------------------------- createDocument
\* The object handed to liveblocks.createRoom.
CreateRoomData_ReadOnly(userId, email) ==
  [metadata |-> [creatorId |-> userId, email |-> email, title |-> "Untitled"],
   usersAccesses |-> [e \in {email} |-> <<"room:read", "room:presence:write">>],
   defaultAccesses |-> <<>>]

CreateRoomData(userId, email) ==
  [metadata |-> [creatorId |-> userId, email |-> email, title |-> "Untitled"],
   usersAccesses |-> [e \in {email} |-> <<"room:write">>],
   defaultAccesses |-> <<>>]

StartCreateDocument(s, userId, email) ==
  /\ nanoCount < MaxRooms
  /\ Begin(s, [Idle EXCEPT !.op = "createDocument", !.pc = "createRoom",
                           !.roomId = nanoCount + 1,
                           !.userId = userId, !.email = email])
  /\ nanoCount' = nanoCount + 1
  /\ UNCHANGED <<rooms, inbox>>

CreateRoomStep(s, ok) ==
  /\ At(s, "createDocument", "createRoom")
  /\ LET success == ok /\ rooms[calls[s].roomId] = NoRoom
         c == Did(calls[s], "createRoom", success)
         room == StoreCreateRoom(c.roomId, CreateRoomData(c.userId, c.email))
     IN  /\ rooms' = IF success THEN [rooms EXCEPT ![c.roomId] = room] ELSE rooms
         /\ Continue(s, IF success
                          THEN ReturnValue(Revalidate(c, RootPath), room)
                          ELSE CatchAndLog(c, "Error happened while creating a room",
                                           StoreError))
  /\ UNCHANGED <<nanoCount, inbox, started>>

\* ------------------------------------------------------------- getDocument
hasAccess_AnyUser(room, userId) == DOMAIN room.usersAccesses # {}

hasAccess(room, userId) == userId \in DOMAIN room.usersAccesses

StartGetDocument(s, roomId, userId) ==
  /\ Begin(s, [Idle EXCEPT !.op = "getDocument", !.pc = "getRoom",
                           !.roomId = roomId, !.userId = userId])
  /\ UNCHANGED <<rooms, nanoCount, inbox>>

\* The invocation c after liveblocks.getRoom threw: the catch block logs and
\* the function ends without a value.
GetRoomFailed_Rethrows(c) ==
  CatchAndRethrow(c, "Error happened while getting a room", StoreError)

GetRoomFailed(c) ==
  CatchAndLog(c, "Error happened while getting a room", StoreError)

GetRoomStep(s, ok) ==
  /\ At(s, "getDocument", "getRoom")
  /\ LET room == rooms[calls[s].roomId]
         success == ok /\ room # NoRoom
         c == Did(calls[s], "getRoom", success)
         prefix == "Error happened while getting a room"
     IN  Continue(s,
           IF ~success THEN GetRoomFailed(c)
           ELSE IF ~hasAccess(room, c.userId) THEN CatchAndLog(c, prefix, NoAccessError)
           ELSE ReturnValue(c, room))
  /\ UNCHANGED <<rooms, nanoCount, inbox, started>>

\* ----------------------------------------------------------- getClerkUsers
RECURSIVE SetToSeq(_)
SetToSeq(S) ==
  IF S = {} THEN <<>>
  ELSE LET x == CHOOSE y \in S : TRUE IN <<x>> \o SetToSeq(S \ {x})

\* Object.keys of a string-keyed object.
ObjectKeys(obj) == SetToSeq(DOMAIN obj)

\* A slot of the list that holds no user: users.find found none (undefined),
\* which JSON.parse(JSON.stringify(..)) hands back as null.
NullUser == [id |-> "", name |-> <<>>, email |-> "", avatar |-> <<>>]

UserOf(account) ==
  [id |-> account[1], name |-> <<"name", account[1]>>, email |-> account[2],
   avatar |-> <<"avatar", account[1]>>]

\* clerkClient.users.getUserList({ emailAddress }): the accounts that match.
ClerkUserList(emails) ==
  SetToSeq({a \in ClerkAccounts : \E i \in 1..Len(emails) : emails[i] = a[2]})

\* What getClerkUsers makes of the list `data' the directory answered with:
\* data.map(...) builds the users, and
\* userIds.map((email) => users.find((user) => user.email === email))
\* puts them in the order of userIds.
sortedUsers_AsAnswered(userIds, data) ==
  [i \in 1..Len(data) |-> UserOf(data[i])]

sortedUsers(userIds, data) ==
  LET users == [i \in 1..Len(data) |-> UserOf(data[i])]
      Find(email) ==
        IF \E i \in 1..Len(users) : users[i].email = email
          THEN users[CHOOSE i \in 1..Len(users) :
                       /\ users[i].email = email
                       /\ \A j \in 1..(i - 1) : users[j].email # email]
          ELSE NullUser
  IN  [i \in 1..Len(userIds) |-> Find(userIds[i])]

getClerkUsers(userIds) == sortedUsers(userIds, ClerkUserList(userIds))

\* ------------------------------------------------------------ Document page
\* room.usersAccesses[email]?.includes('room:write') ? 'editor' : 'viewer'
UserTypeOf_ReadIsEditor(room, email) ==
  IF email \in DOMAIN room.usersAccesses
       /\ Includes(room.usersAccesses[email], "room:read")
    THEN "editor" ELSE "viewer"

UserTypeOf(room, email) ==
  IF email \in DOMAIN room.usersAccesses
       /\ Includes(room.usersAccesses[email], "room:write")
    THEN "editor" ELSE "viewer"

\* What the page does with the value getDocument returned to it for the
\* signed-in user `email': it redirects to '/' when there is none; reading
\* user.email of a null slot of the user list is a TypeError; otherwise it
\* renders CollaborativeRoom with the users and the current user's type.
Document(room, email) ==
  IF room = Undefined
    THEN [outcome |-> "redirect", to |-> RootPath, users |-> <<>>,
          currentUserType |-> ""]
  ELSE LET users == getClerkUsers(ObjectKeys(room.usersAccesses))
       IN  IF \E i \in 1..Len(users) : users[i] = NullUser
             THEN [outcome |-> "TypeError", to |-> <<>>, users |-> <<>>,
                   currentUserType |-> ""]
             ELSE [outcome |-> "render", to |-> <<>>,
                   users |-> [i \in 1..Len(users) |->
                                [email |-> users[i].email,
                                 userType |-> UserTypeOf(room, users[i].email)]],
                   currentUserType |-> UserTypeOf(room, email)]

\* ---------------------------------------------------------- updateDocument
\* The partial record handed to liveblocks.updateRoom: { metadata: { title } }.
TitlePatch_WithEmail(title) ==
  [metadata |-> [title |-> title, email |-> ""], usersAccesses |-> EmptyMap]

TitlePatch_Untitled(title) ==
  [metadata |-> [title |-> "Untitled"], usersAccesses |-> EmptyMap]

TitlePatch(title) ==
  [metadata |-> [title |-> title], usersAccesses |-> EmptyMap]

\* updateDocument(roomId, title) as it is called
updateDocument(roomId, title) ==
  [Idle EXCEPT !.op = "updateDocument", !.pc = "updateRoom",
               !.roomId = roomId, !.title = title,
               !.patch = TitlePatch(title)]

StartUpdateDocument(s, roomId, title) ==
  /\ Begin(s, updateDocument(roomId, title))
  /\ UNCHANGED <<rooms, nanoCount, inbox>>

UpdateTitleStep(s, ok) ==
  /\ At(s, "updateDocument", "updateRoom")
  /\ LET room == rooms[calls[s].roomId]
         success == ok /\ room # NoRoom
         c == Did(calls[s], "updateRoom", success)
         updatedRoom == StoreUpdateRoom(room, c.patch)
     IN  /\ rooms' = IF success THEN [rooms EXCEPT ![c.roomId] = updatedRoom] ELSE rooms
         /\ Continue(s, IF success
                          THEN ReturnValue(Revalidate(c, DocumentPath(c.roomId)), updatedRoom)
                          ELSE CatchAndRethrow(c, "Error happened while updating a room",
                                               StoreError))
  /\ UNCHANGED <<nanoCount, inbox, started>>

\* ----------------------------------------------------- updateDocumentAccess
\* The usersAccesses object built before the store is called.
AccessPatch_WholeMap(email, userType) ==
  [metadata |-> EmptyMap,
   usersAccesses |-> [e \in Emails |->
                        IF e = email THEN getAccessType(userType) ELSE Null]]

AccessPatch(email, userType) ==
  [metadata |-> EmptyMap,
   usersAccesses |-> [e \in {email} |-> getAccessType(userType)]]

\* The request handed to liveblocks.triggerInboxNotification.  subjectId is a
\* fresh nanoid() that nothing reads; it is left out.
AccessNotification_ToActor(c) ==
  [userId |-> c.updatedBy, kind |-> "$documentAccess", roomId |-> c.roomId,
   activityData |-> [userType |-> c.userType, updatedBy |-> c.updatedBy]]

AccessNotification(c) ==
  [userId |-> c.email, kind |-> "$documentAccess", roomId |-> c.roomId,
   activityData |-> [userType |-> c.userType, updatedBy |-> c.updatedBy]]

\* The invocation c after liveblocks.updateRoom threw: control leaves the try
\* block, the catch block logs, the function ends without a value.
AccessWriteFailed_Rethrows(c) ==
  CatchAndRethrow(c, "Error happened while updating a room access", StoreError)

AccessWriteFailed_GoesOn(c) == [c EXCEPT !.pc = "triggerInboxNotification"]

AccessWriteFailed(c) ==
  CatchAndLog(c, "Error happened while updating a room access", StoreError)

\* The store after liveblocks.triggerInboxNotification threw in the
\* invocation c: the catch block logs and writes nothing.
RoomsAfterNotifyFailed_RollsBack(c) ==
  IF rooms[c.roomId] = NoRoom THEN rooms
  ELSE [rooms EXCEPT ![c.roomId] =
          StoreUpdateRoom(@, [metadata |-> EmptyMap,
                              usersAccesses |-> [e \in {c.email} |-> Null]])]

RoomsAfterNotifyFailed(c) == rooms

\* updateDocumentAccess({roomId, email, userType, updatedBy}) as it is called
updateDocumentAccess(roomId, email, userType, updatedBy) ==
  [Idle EXCEPT !.op = "updateDocumentAccess", !.pc = "updateRoom",
               !.roomId = roomId, !.email = email,
               !.userType = userType, !.updatedBy = updatedBy,
               !.patch = AccessPatch(email, userType)]

StartUpdateDocumentAccess(s, roomId, email, userType, updatedBy) ==
  /\ Begin(s, updateDocumentAccess(roomId, email, userType, updatedBy))
  /\ UNCHANGED <<rooms, nanoCount, inbox>>

AccessWriteStep(s, ok) ==
  /\ At(s, "updateDocumentAccess", "updateRoom")
  /\ LET room == rooms[calls[s].roomId]
         success == ok /\ room # NoRoom
         c == Did(calls[s], "updateRoom", success)
         updatedRoom == StoreUpdateRoom(room, c.patch)
     IN  /\ rooms' = IF success THEN [rooms EXCEPT ![c.roomId] = updatedRoom] ELSE rooms
         /\ Continue(s, IF success
                          THEN [c EXCEPT !.pc = "triggerInboxNotification",
                                         !.ret = updatedRoom]
                          ELSE AccessWriteFailed(c))
  /\ UNCHANGED <<nanoCount, inbox, started>>

\* `room' is the record updateRoom returned, never a falsy value, so the
\* notification is triggered whenever this await is reached.
AccessNotifyStep(s, ok) ==
  /\ At(s, "updateDocumentAccess", "triggerInboxNotification")
  /\ LET n == AccessNotification(calls[s])
         c == [Did(calls[s], "triggerInboxNotification", ok)
                 EXCEPT !.emitted = Append(@, n)]
     IN  /\ inbox' = IF ok THEN Append(inbox, n) ELSE inbox
         /\ rooms' = IF ok THEN rooms ELSE RoomsAfterNotifyFailed(c)
         /\ Continue(s, IF ok
                          THEN ReturnValue(Revalidate(c, DocumentPath(c.roomId)), c.ret)
                          ELSE CatchAndLog(c, "Error happened while updating a room access",
                                           StoreError))
  /\ UNCHANGED <<nanoCount, started>>

\* ------------------------------------------------------- removeCollaborator
IsCreatorEmail_ById(room, email) == room.metadata.creatorId = email

IsCreatorEmail(room, email) == room.metadata.email = email

RemovePatch(email) ==
  [metadata |-> EmptyMap, usersAccesses |-> [e \in {email} |-> Null]]

\* removeCollaborator({roomId, email}) as it is called
removeCollaborator(roomId, email) ==
  [Idle EXCEPT !.op = "removeCollaborator", !.pc = "getRoom",
               !.roomId = roomId, !.email = email]

StartRemoveCollaborator(s, roomId, email) ==
  /\ Begin(s, removeCollaborator(roomId, email))
  /\ UNCHANGED <<rooms, nanoCount, inbox>>

RemoveGetStep(s, ok) ==
  /\ At(s, "removeCollaborator", "getRoom")
  /\ LET room == rooms[calls[s].roomId]
         success == ok /\ room # NoRoom
         c == Did(calls[s], "getRoom", success)
         prefix == "Error happened while removing a collaborator"
     IN  Continue(s,
           IF ~success THEN CatchAndLog(c, prefix, StoreError)
           ELSE IF IsCreatorEmail(room, c.email)
             THEN CatchAndLog(c, prefix, SelfRemovalError)
           ELSE [c EXCEPT !.pc = "updateRoom", !.patch = RemovePatch(c.email)])
  /\ UNCHANGED <<rooms, nanoCount, inbox, started>>

\* How the store keeps the removed grant is the store's choice.
RemoveWriteStep(s, ok, tombstones) ==
  /\ At(s, "removeCollaborator", "updateRoom")
  /\ LET room == rooms[calls[s].roomId]
         success == ok /\ room # NoRoom
         c == Did(calls[s], "updateRoom", success)
         updatedRoom == StoreUpdateRoomAs(room, c.patch, tombstones)
     IN  /\ rooms' = IF success THEN [rooms EXCEPT ![c.roomId] = updatedRoom] ELSE rooms
         /\ Continue(s, IF success
                          THEN ReturnValue(Revalidate(c, DocumentPath(c.roomId)), updatedRoom)
                          ELSE CatchAndLog(c, "Error happened while removing a collaborator",
                                           StoreError))
  /\ UNCHANGED <<nanoCount, inbox, started>>

\* ----------------------------------------------------------- deleteDocument
\* deleteDocument(roomId) as it is called
deleteDocument(roomId) ==
  [Idle EXCEPT !.op = "deleteDocument", !.pc = "deleteRoom", !.roomId = roomId]

StartDeleteDocument(s, roomId) ==
  /\ Begin(s, deleteDocument(roomId))
  /\ UNCHANGED <<rooms, nanoCount, inbox>>

\* redirect() signals the framework by throwing; it is called inside the try
\* block, so the catch block receives what it throws.
DeleteStep(s, ok) ==
  /\ At(s, "deleteDocument", "deleteRoom")
  /\ LET success == ok /\ rooms[calls[s].roomId] # NoRoom
         c == Did(calls[s], "deleteRoom", success)
         prefix == "Error happened while deleting a room"
     IN  /\ rooms' = IF success THEN [rooms EXCEPT ![c.roomId] = NoRoom] ELSE rooms
         /\ Continue(s, IF success
                          THEN CatchAndLog(Revalidate(c, RootPath), prefix, RedirectError)
                          ELSE CatchAndLog(c, prefix, StoreError))
  /\ UNCHANGED <<nanoCount, inbox, started>>

\* -------------------------------------------------------------------- spec
Init ==
  /\ rooms = [r \in RoomIds |-> NoRoom]
  /\ nanoCount = 0
  /\ inbox = <<>>
  /\ calls = [s \in Slots |-> Idle]
  /\ last = Idle
  /\ started = 0
  /\ tab = ClosedTab

Next ==
  \E s \in Slots :
    \/ \E a \in Creators : StartCreateDocument(s, a[1], a[2])
    \/ \E ok \in BOOLEAN : CreateRoomStep(s, ok)
    \/ \E r \in KnownRoomIds, e \in Emails : StartGetDocument(s, r, e)
    \/ \E ok \in BOOLEAN : GetRoomStep(s, ok)
    \/ \E r \in KnownRoomIds, t \in Titles : StartUpdateDocument(s, r, t)
    \/ \E ok \in BOOLEAN : UpdateTitleStep(s, ok)
    \/ \E r \in KnownRoomIds, e \in Emails, ut \in UserTypes, by \in Actors :
          StartUpdateDocumentAccess(s, r, e, ut, by)
    \/ \E ok \in BOOLEAN : AccessWriteStep(s, ok)
    \/ \E ok \in BOOLEAN : AccessNotifyStep(s, ok)
    \/ \E r \in KnownRoomIds, e \in Emails : StartRemoveCollaborator(s, r, e)
    \/ \E ok \in BOOLEAN : RemoveGetStep(s, ok)
    \/ \E ok \in BOOLEAN, tombstones \in BOOLEAN : RemoveWriteStep(s, ok, tombstones)
    \/ \E r \in KnownRoomIds : StartDeleteDocument(s, r)
    \/ \E ok \in BOOLEAN : DeleteStep(s, ok)

Spec == Init /\ [][Next]_vars

\* ----------------------------------------------------------------- claims
\* The step is one of the invocation in slot s.
StepOf(s) == calls'[s] # calls[s]
\* The invocation of slot s after its step: in flight, or handed to its caller.
After(s) == IF calls'[s] = Idle THEN last' ELSE calls'[s]
\* The room the invocation c names is in the store.
Live(c) == rooms[c.roomId] # NoRoom
HoldsWrite(room, email) ==
  /\ email \in DOMAIN room.usersAccesses
  /\ Includes(room.usersAccesses[email], "room:write")

\* C1: a getDocument whose userId is not a key of usersAccesses of the room it
\* reads returns no room, and the document page redirects to '/' instead of
\* rendering the collaborative room.
C1_NotListedIsDenied ==
  [][\A s \in Slots :
       (/\ At(s, "getDocument", "getRoom")
        /\ StepOf(s)
        /\ Live(calls[s])
        /\ calls[s].userId \notin DOMAIN rooms[calls[s].roomId].usersAccesses)
       => /\ After(s).pc = "done"
          /\ After(s).ret = Undefined
          /\ Document(After(s).ret, calls[s].userId).outcome = "redirect"]_vars

C1_Witness ==
  /\ last.op = "getDocument"
  /\ Live(last)
  /\ last.userId \notin DOMAIN rooms[last.roomId].usersAccesses
  /\ last.io = <<[call |-> "getRoom", ok |-> TRUE]>>
  /\ last.ret = Undefined
  /\ Document(last.ret, last.userId).outcome = "redirect"

\* C2: in every state the grant stored for the creator's email of a room in
\* the store contains room:write.
C2_CreatorHoldsWrite ==
  \A r \in RoomIds :
    rooms[r] # NoRoom => HoldsWrite(rooms[r], rooms[r].metadata.email)

\* C3: the step in which createDocument's createRoom succeeds stores, and
\* returns, a room with metadata {creatorId, email, title 'Untitled'}, the
\* single grant email -> [room:write] and no default accesses.
C3_CreatedRoom ==
  [][\A s \in Slots :
       (/\ At(s, "createDocument", "createRoom")
        /\ StepOf(s)
        /\ After(s).ret # Undefined)
       => LET c == calls[s]
              room == rooms'[c.roomId]
          IN  /\ room # NoRoom
              /\ room.metadata = [creatorId |-> c.userId, email |-> c.email,
                                  title |-> "Untitled"]
              /\ DOMAIN room.usersAccesses = {c.email}
              /\ room.usersAccesses[c.email] = <<"room:write">>
              /\ room.defaultAccesses = <<>>
              /\ After(s).ret = room]_vars

C3_Witness ==
  /\ last.op = "createDocument"
  /\ last.ret # Undefined
  /\ rooms[last.roomId] = last.ret
  /\ DOMAIN rooms[last.roomId].usersAccesses = {last.email}

\* The invocations of `op' in flight, and the last completed one if it is one.
Invocations(op) == {c \in {calls[s] : s \in Slots} \cup {last} : c.op = op}
ViewerTokens == <<"room:read", "room:presence:write">>
EditorTokens == <<"room:write">>

\* C4 (as stated): the grant updateDocumentAccess builds from its userType is
\* [room:write] for editor, [room:read, room:presence:write] for viewer, and
\* for every other role value the same as for viewer.
C4_OnlyEditorWrites ==
  \A c \in Invocations("updateDocumentAccess") :
    /\ DOMAIN c.patch.usersAccesses = {c.email}
    /\ c.patch.usersAccesses[c.email] =
         IF c.userType = "editor" THEN EditorTokens ELSE ViewerTokens

\* C4 (amended): the grant is [room:write] for editor and for creator,
\* [room:read, room:presence:write] for viewer and for every role value the
\* switch does not name; a grant is built for every role value.
C4_TokensForRole ==
  \A c \in Invocations("updateDocumentAccess") :
    /\ DOMAIN c.patch.usersAccesses = {c.email}
    /\ c.patch.usersAccesses[c.email] =
         IF c.userType \in {"editor", "creator"} THEN EditorTokens ELSE ViewerTokens

C4_Witness ==
  /\ \E c \in Invocations("updateDocumentAccess") :
       c.userType = "creator" /\ c.patch.usersAccesses[c.email] = EditorTokens
  /\ \E c \in Invocations("updateDocumentAccess") :
       c.userType = "admin" /\ c.patch.usersAccesses[c.email] = ViewerTokens

\* The invocation c names the creator's email of a room in the store.
TargetsCreator(c) == Live(c) /\ rooms[c.roomId].metadata.email = c.email
RemoveLog(error) == <<Log("Error happened while removing a collaborator", error)>>

\* C5 (as stated): a removeCollaborator given the creator's email of a room
\* always fails with 'You cannot remove yourself from the document' and
\* leaves the store as it was.
C5_AlwaysSelfRemovalError ==
  [][\A s \in Slots :
       (calls[s].op = "removeCollaborator" /\ StepOf(s) /\ TargetsCreator(calls[s]))
       => /\ After(s).pc = "done"
          /\ After(s).ret = Undefined
          /\ After(s).logged = RemoveLog(SelfRemovalError)
          /\ rooms' = rooms]_vars

\* C5 (amended): such a removeCollaborator always fails at its first await
\* and leaves the store as it was: with 'You cannot remove yourself from the
\* document' when its read of the room succeeds, with the store's error when
\* that read fails.
C5_CreatorRemovalFails ==
  [][\A s \in Slots :
       (calls[s].op = "removeCollaborator" /\ StepOf(s) /\ TargetsCreator(calls[s]))
       => /\ After(s).pc = "done"
          /\ After(s).ret = Undefined
          /\ After(s).logged =
               IF After(s).io[1].ok THEN RemoveLog(SelfRemovalError)
                                    ELSE RemoveLog(StoreError)
          /\ rooms' = rooms]_vars

C5_Witness ==
  /\ last.op = "removeCollaborator"
  /\ TargetsCreator(last)
  /\ last.ret = Undefined
  /\ last.logged = RemoveLog(SelfRemovalError)
  /\ HoldsWrite(rooms[last.roomId], last.email)

\* C6 (as stated): a removeCollaborator given the creator's email of a room
\* completes without any call to the store, read or write.
C6_NoStoreCall ==
  [][\A s \in Slots :
       (calls[s].op = "removeCollaborator" /\ StepOf(s) /\ TargetsCreator(calls[s]))
       => After(s).pc = "done" /\ After(s).io = <<>>]_vars

\* C6 (amended): such a removeCollaborator issues exactly one call to the
\* store, the getRoom read that tells it the creator's email, and no write:
\* it ends at that await and never reaches updateRoom.
C6_NoStoreWrite ==
  [][\A s \in Slots :
       (calls[s].op = "removeCollaborator" /\ StepOf(s) /\ TargetsCreator(calls[s]))
       => /\ calls[s].pc = "getRoom"
          /\ After(s).pc = "done"
          /\ Len(After(s).io) = 1
          /\ After(s).io[1].call = "getRoom"]_vars

C6_Witness ==
  /\ last.op = "removeCollaborator"
  /\ TargetsCreator(last)
  /\ last.io = <<[call |-> "getRoom", ok |-> TRUE]>>

\* C7: the step in which updateDocumentAccess's updateRoom succeeds sets
\* usersAccesses[email] to exactly getAccessType(userType) and changes no
\* other grant, nor the metadata, nor defaultAccesses; and the document page
\* then lists the collaborators, with the role of the new grant for that
\* email and the role it had before for every other email.
C7_GrantThenList ==
  [][\A s \in Slots :
       (/\ At(s, "updateDocumentAccess", "updateRoom")
        /\ StepOf(s)
        /\ After(s).io = <<[call |-> "updateRoom", ok |-> TRUE]>>)
       => LET c == calls[s]
              before == rooms[c.roomId]
              after == rooms'[c.roomId]
              others == DOMAIN before.usersAccesses \ {c.email}
              page == Document(after, c.updatedBy)
              role == IF Includes(getAccessType(c.userType), "room:write")
                        THEN "editor" ELSE "viewer"
          IN  /\ DOMAIN after.usersAccesses = DOMAIN before.usersAccesses \cup {c.email}
              /\ after.usersAccesses[c.email] = getAccessType(c.userType)
              /\ \A e \in others : after.usersAccesses[e] = before.usersAccesses[e]
              /\ after.metadata = before.metadata
              /\ after.defaultAccesses = before.defaultAccesses
              /\ page.outcome = "render"
              /\ \E i \in 1..Len(page.users) :
                   page.users[i] = [email |-> c.email, userType |-> role]
              /\ \A e \in others : \E i \in 1..Len(page.users) :
                   page.users[i] = [email |-> e, userType |-> UserTypeOf(before, e)]]_vars

\* C8: an updateDocumentAccess whose updateRoom succeeded has sent, once it
\* is done, exactly one notification request, to its email, of kind
\* $documentAccess, for its roomId; and an invocation has sent a request only
\* after its updateRoom completed successfully.
C8_OneNotificationAfterWrite ==
  \A c \in Invocations("updateDocumentAccess") :
    LET wrote == Len(c.io) >= 1 /\ c.io[1] = [call |-> "updateRoom", ok |-> TRUE]
    IN  /\ Len(c.emitted) <= 1
        /\ c.emitted # <<>> =>
             /\ wrote
             /\ Len(c.io) = 2 /\ c.io[2].call = "triggerInboxNotification"
             /\ c.emitted[1].userId = c.email
             /\ c.emitted[1].kind = "$documentAccess"
             /\ c.emitted[1].roomId = c.roomId
        /\ (wrote /\ c.pc = "done") => Len(c.emitted) = 1
        /\ \A i \in 1..Len(inbox) : inbox[i].kind = "$documentAccess"

C8_Witness ==
  /\ last.op = "updateDocumentAccess"
  /\ last.io = <<[call |-> "updateRoom", ok |-> TRUE],
                 [call |-> "triggerInboxNotification", ok |-> TRUE]>>
  /\ Len(last.emitted) = 1
  /\ last.email # last.updatedBy
  /\ inbox = last.emitted

AccessLog == <<Log("Error happened while updating a room access", StoreError)>>

C10_FailedNotifyKeepsGrant ==
  [][\A s \in Slots :
       (/\ At(s, "updateDocumentAccess", "triggerInboxNotification")
        /\ StepOf(s)
        /\ ~After(s).io[2].ok)
       => /\ rooms' = rooms
          /\ After(s).pc = "done"
          /\ After(s).io = <<[call |-> "updateRoom", ok |-> TRUE],
                             [call |-> "triggerInboxNotification", ok |-> FALSE]>>
          /\ inbox' = inbox]_vars

C10_Witness ==
  /\ last.op = "updateDocumentAccess"
  /\ last.io = <<[call |-> "updateRoom", ok |-> TRUE],
                 [call |-> "triggerInboxNotification", ok |-> FALSE]>>
  /\ Live(last)
  /\ last.email \in DOMAIN rooms[last.roomId].usersAccesses
  /\ rooms[last.roomId].usersAccesses[last.email] = getAccessType(last.userType)
  /\ inbox = <<>>

\* C11: the step in which triggerInboxNotification fails, after the
\* invocation's updateRoom succeeded, ends the invocation as the step in
\* which it succeeds does: the updated room is returned to the caller and
\* the path of the document is revalidated.
C11_FailedNotifyStillSucceeds ==
  [][\A s \in Slots :
       (/\ At(s, "updateDocumentAccess", "triggerInboxNotification")
        /\ StepOf(s)
        /\ ~After(s).io[2].ok)
       => /\ After(s).pc = "done"
          /\ After(s).ret = calls[s].ret
          /\ After(s).revalidated = {DocumentPath(calls[s].roomId)}]_vars

\* The step of slot s is updateDocument's updateRoom, and it succeeded.
RenameWrote(s) ==
  /\ At(s, "updateDocument", "updateRoom")
  /\ StepOf(s)
  /\ After(s).io = <<[call |-> "updateRoom", ok |-> TRUE]>>

\* C12: the step in which updateDocument's updateRoom succeeds sets
\* metadata.title to the given title and changes nothing else: creatorId,
\* email, every usersAccesses entry and defaultAccesses are as before, and so
\* is every other room.
C12_RenameChangesOnlyTitle ==
  [][\A s \in Slots :
       RenameWrote(s)
       => LET c == calls[s]
              before == rooms[c.roomId]
              after == rooms'[c.roomId]
          IN  /\ after # NoRoom
              /\ DOMAIN after.metadata = DOMAIN before.metadata
              /\ after.metadata.title = c.title
              /\ after.metadata.creatorId = before.metadata.creatorId
              /\ after.metadata.email = before.metadata.email
              /\ after.usersAccesses = before.usersAccesses
              /\ after.defaultAccesses = before.defaultAccesses
              /\ \A r \in RoomIds \ {c.roomId} : rooms'[r] = rooms[r]]_vars

C12_Witness ==
  /\ last.op = "updateDocument"
  /\ last.title = "Plan"
  /\ last.io = <<[call |-> "updateRoom", ok |-> TRUE]>>
  /\ Live(last)
  /\ rooms[last.roomId].metadata =
       [creatorId |-> "user_a", email |-> "a@x.com", title |-> "Plan"]
  /\ Cardinality(DOMAIN rooms[last.roomId].usersAccesses) >= 2

\* C13: a successful updateDocument whose title is the room's current title
\* leaves the store exactly as it is; and after any successful
\* updateDocument the room's title is the given one, so that the same
\* updateRoom applied once more changes nothing.
C13_RenameIdempotent ==
  [][\A s \in Slots :
       RenameWrote(s)
       => LET c == calls[s]
          IN  /\ rooms'[c.roomId].metadata.title = c.title
              /\ StoreUpdateRoom(rooms'[c.roomId], c.patch) = rooms'[c.roomId]
              /\ rooms[c.roomId].metadata.title = c.title => rooms' = rooms
              /\ After(s).ret = rooms'[c.roomId]]_vars

\* createDocument, then one updateDocument with the title the room already
\* had, and nothing else.
C13_Witness ==
  /\ started = 2
  /\ nanoCount = 1
  /\ last.op = "updateDocument"
  /\ last.title = "Untitled"
  /\ last.io = <<[call |-> "updateRoom", ok |-> TRUE]>>
  /\ Live(last)
  /\ rooms[last.roomId] = last.ret
  /\ rooms[last.roomId].metadata.title = "Untitled"

\* C14: when updateDocument's updateRoom fails, the title editor that made
\* the call, by Enter or by a click outside, catches the error and stays as
\* it was: in edit mode, with the typed title.
C14_FailedRenameKeepsEditor ==
  [][\A s \in Slots :
       (/\ At(s, "updateDocument", "updateRoom")
        /\ StepOf(s)
        /\ After(s).io = <<[call |-> "updateRoom", ok |-> FALSE]>>)
       => LET ui == TitleEditor(calls[s].title)
              result == After(s).ret
          IN  \A after \in {updateTitleHandler(ui, result),
                            handleClickOutside(ui, result)} :
                /\ after.editing
                /\ after.documentTitle = calls[s].title
                /\ after.consoleError = <<StoreError>>
                /\ after.unhandledRejection = <<>>]_vars

\* Pressing Enter alone does keep the editor as it was.
EnterKeepsEditor ==
  [][\A s \in Slots :
       (/\ At(s, "updateDocument", "updateRoom")
        /\ StepOf(s)
        /\ After(s).io = <<[call |-> "updateRoom", ok |-> FALSE]>>)
       => LET after == updateTitleHandler(TitleEditor(calls[s].title), After(s).ret)
          IN  /\ after.editing
              /\ after.documentTitle = calls[s].title
              /\ after.consoleError = <<StoreError>>
              /\ after.unhandledRejection = <<>>]_vars

StoreCalls == {"createRoom", "getRoom", "updateRoom", "deleteRoom"}

\* The step of slot s ends an invocation of `op' at a store call that failed.
StoreCallFailed(s, op) ==
  /\ calls[s].op = op
  /\ StepOf(s)
  /\ After(s).pc = "done"
  /\ After(s).io[Len(After(s).io)].call \in StoreCalls
  /\ ~After(s).io[Len(After(s).io)].ok

\* C15: when a store call of createDocument, updateDocumentAccess,
\* removeCollaborator or deleteDocument fails, the store is as before, the
\* caller does not get the room a successful call returns, and the delete
\* dialog, whose successful call closes it, stays open.
C15_StoreFailureIsSeen ==
  [][\A s \in Slots :
       \A op \in {"createDocument", "updateDocumentAccess",
                  "removeCollaborator", "deleteDocument"} :
         StoreCallFailed(s, op)
         => /\ rooms' = rooms
            /\ After(s).ret.tag # "room"
            /\ op = "deleteDocument" =>
                 deleteDocumentHandler(DeleteModal, After(s).ret).open]_vars

\* createDocument, updateDocumentAccess and removeCollaborator do return
\* undefined instead of the room when a store call of theirs fails.
StoreFailureReturnsUndefined ==
  [][\A s \in Slots :
       \A op \in {"createDocument", "updateDocumentAccess", "removeCollaborator"} :
         StoreCallFailed(s, op)
         => /\ rooms' = rooms
            /\ After(s).ret = Undefined
            /\ After(s).logged # <<>>]_vars

\* The id r was handed out and names no room, and no createDocument that
\* would create it is in flight: the room was deleted, or never created.
Gone(r) ==
  /\ r \in KnownRoomIds
  /\ rooms[r] = NoRoom
  /\ \A s \in Slots : ~(calls[s].op = "createDocument" /\ calls[s].roomId = r)

\* C16: the step in which deleteDocument's deleteRoom succeeds removes the
\* room; a room that is gone stays gone; and every getDocument for it, by
\* the creator or anyone else, ends without a room, the store's error logged,
\* and the page redirects.
C16_DeletedStaysGone ==
  [][/\ \A r \in RoomIds : Gone(r) => rooms'[r] = NoRoom
     /\ \A s \in Slots :
          (/\ At(s, "deleteDocument", "deleteRoom")
           /\ StepOf(s)
           /\ After(s).io = <<[call |-> "deleteRoom", ok |-> TRUE]>>)
          => rooms[calls[s].roomId] # NoRoom /\ rooms'[calls[s].roomId] = NoRoom
     /\ \A s \in Slots :
          (At(s, "getDocument", "getRoom") /\ StepOf(s) /\ Gone(calls[s].roomId))
          => /\ After(s).pc = "done"
             /\ After(s).ret = Undefined
             /\ After(s).logged =
                  <<Log("Error happened while getting a room", StoreError)>>
             /\ Document(After(s).ret, calls[s].userId).outcome = "redirect"]_vars

\* A deleteDocument has just succeeded while the creator's getDocument for
\* the same room awaits the store.
C16_Witness ==
  /\ last.op = "deleteDocument"
  /\ last.io = <<[call |-> "deleteRoom", ok |-> TRUE]>>
  /\ Gone(last.roomId)
  /\ \E s \in Slots :
       /\ At(s, "getDocument", "getRoom")
       /\ calls[s].roomId = last.roomId
       /\ calls[s].userId = "a@x.com"

\* C17: when updateDocument's updateRoom succeeds while another
\* updateDocument for the same room is in flight, the stored title becomes
\* the title of the call whose write this is and no other field changes; and
\* the title of a room changes in no other step, so that after both writes
\* the title is that of the write the store received last.
C17_LastWriteWins ==
  [][/\ \A s \in Slots :
          (/\ RenameWrote(s)
           /\ \E t \in Slots \ {s} : /\ calls[t].op = "updateDocument"
                                     /\ calls[t].roomId = calls[s].roomId)
          => LET c == calls[s]
             IN  /\ rooms'[c.roomId].metadata.title \in Titles
                 /\ rooms' = [rooms EXCEPT ![c.roomId].metadata.title = c.title]
     /\ \A r \in RoomIds :
          (/\ rooms[r] # NoRoom
           /\ rooms'[r] # NoRoom
           /\ rooms'[r].metadata.title # rooms[r].metadata.title)
          => \E s \in Slots : /\ RenameWrote(s)
                              /\ calls[s].roomId = r
                              /\ rooms'[r].metadata.title = calls[s].title]_vars

\* createDocument and two updateDocument calls, nothing else: the one for
\* "Untitled" began first and still awaits the store, the one for "Plan"
\* began after it and has written.
C17_Witness ==
  /\ started = 3
  /\ nanoCount = 1
  /\ last.op = "updateDocument"
  /\ last.title = "Plan"
  /\ last.io = <<[call |-> "updateRoom", ok |-> TRUE]>>
  /\ calls[1] = Idle
  /\ At(2, "updateDocument", "updateRoom")
  /\ calls[2].title = "Untitled"
  /\ calls[2].roomId = last.roomId
  /\ Live(last)
  /\ rooms[last.roomId].metadata.title = "Plan"

\* The page as the signed-in user `email' gets it for the stored room
\* `room': getDocument hands the room over only to an email that is a key of
\* usersAccesses.
PageFor(room, email) ==
  Document(IF hasAccess(room, email) THEN room ELSE Undefined, email)

PageOf(r, email) == PageFor(rooms[r], email)

\* On every page of the room that renders, each listed collaborator has the
\* type editor exactly when the grant of its email holds room:write, and
\* viewer otherwise, also when the key holds no grant; and so has the
\* signed-in user.
RolesFollowGrants(room) ==
  \A e \in Emails :
    LET page == PageFor(room, e)
        Role(x) == IF HoldsWrite(room, x) THEN "editor" ELSE "viewer"
    IN  page.outcome = "render"
        => /\ \A i \in 1..Len(page.users) :
                 page.users[i].userType = Role(page.users[i].email)
           /\ page.currentUserType = Role(e)

\* C18: every step that stores a room or changes one leaves it such that on
\* every document page of it that renders, each listed collaborator, and
\* the signed-in user, has the type editor exactly when the grant of its
\* email holds room:write, and viewer otherwise.
C18_EditorIffWrite ==
  [][\A r \in RoomIds :
       (rooms'[r] # rooms[r] /\ rooms'[r] # NoRoom)
       => RolesFollowGrants(rooms'[r])]_vars

\* The page of a signed-in viewer, listing an editor and a viewer.
C18_Witness ==
  \E r \in RoomIds :
    /\ rooms[r] # NoRoom
    /\ PageOf(r, "b@x.com").outcome = "render"
    /\ PageOf(r, "b@x.com").currentUserType = "viewer"
    /\ \E i, j \in 1..Len(PageOf(r, "b@x.com").users) :
         /\ PageOf(r, "b@x.com").users[i].userType = "editor"
         /\ PageOf(r, "b@x.com").users[j].userType = "viewer"

\* The emails of the identity provider's accounts.
Registered == {a[2] : a \in ClerkAccounts}

\* C19: every document page of a room whose usersAccesses holds an email
\* that no account has still renders, listing the collaborators whose email
\* an account has and leaving the others out.
C19_UnresolvedAreOmitted ==
  \A r \in RoomIds : \A e \in Emails :
    (rooms[r] # NoRoom /\ hasAccess(rooms[r], e))
    => /\ PageOf(r, e).outcome = "render"
       /\ {PageOf(r, e).users[i].email : i \in 1..Len(PageOf(r, e).users)}
            = DOMAIN rooms[r].usersAccesses \cap Registered

\* With every email of usersAccesses registered the page does render and
\* list them all.
ResolvedAreListed ==
  \A r \in RoomIds : \A e \in Emails :
    (/\ rooms[r] # NoRoom
     /\ hasAccess(rooms[r], e)
     /\ DOMAIN rooms[r].usersAccesses \subseteq Registered)
    => /\ PageOf(r, e).outcome = "render"
       /\ {PageOf(r, e).users[i].email : i \in 1..Len(PageOf(r, e).users)}
            = DOMAIN rooms[r].usersAccesses

\* The sequences that list each element of the set S once.
Orders(S) ==
  {f \in [1..Cardinality(S) -> S] : \A x \in S : \E i \in 1..Cardinality(S) : f[i] = x}

\* For the keys of usersAccesses of the room, given in any order, and for
\* every order in which the directory answers with the matching accounts,
\* getClerkUsers' list has the length of the input and holds at position i
\* the profile of the account whose email is input i, or the null slot when
\* no account has that email.
UsersAlignWithIds(room) ==
  \A userIds \in Orders(DOMAIN room.usersAccesses) :
    \A data \in Orders({a \in ClerkAccounts : a[2] \in DOMAIN room.usersAccesses}) :
      LET result == sortedUsers(userIds, data)
      IN  /\ Len(result) = Len(userIds)
          /\ \A i \in 1..Len(userIds) :
               IF userIds[i] \in Registered
                 THEN /\ result[i].email = userIds[i]
                      /\ \E a \in ClerkAccounts : result[i] = UserOf(a)
                 ELSE result[i] = NullUser
          /\ userIds = ObjectKeys(room.usersAccesses)
               => getClerkUsers(userIds) = result

\* C20: every step that stores a room or changes one leaves it such that,
\* for the keys of its usersAccesses in any order and for every order of the
\* directory's answer, getClerkUsers' list has the length of the input and
\* holds at position i the profile whose email is input i, or the null slot
\* when no account has that email.
C20_OrderedAndAligned ==
  [][\A r \in RoomIds :
       (rooms'[r] # rooms[r] /\ rooms'[r] # NoRoom)
       => UsersAlignWithIds(rooms'[r])]_vars

\* A room shared with two registered emails and one that is not.
C20_Witness ==
  \E r \in RoomIds :
    /\ rooms[r] # NoRoom
    /\ DOMAIN rooms[r].usersAccesses = {"a@x.com", "b@x.com", "C@x.com"}
    /\ \E i \in 1..3 : getClerkUsers(ObjectKeys(rooms[r].usersAccesses))[i] = NullUser
    /\ \E i \in 1..3 : getClerkUsers(ObjectKeys(rooms[r].usersAccesses))[i].email = "b@x.com"

\* -------------------------------------------------------- getDocumentUsers
\* The characters of the emails, and the search texts typed after '@' in the
\* editor: none, one that differs from every email in case only, one that
\* matches one email once its capital is lowered, one that matches one email
\* as it is, one that matches none.
Chars ==
  [e \in Emails |->
     CASE e = "a@x.com" -> <<"a", "@", "x", ".", "c", "o", "m">>
       [] e = "b@x.com" -> <<"b", "@", "x", ".", "c", "o", "m">>
       [] e = "C@x.com" -> <<"C", "@", "x", ".", "c", "o", "m">>]
Texts == {<<>>, <<"X", ".">>, <<"c", "@">>, <<"a">>, <<"z">>}

UpperCase == <<"A", "B", "C", "X", "Z">>
LowerCase == <<"a", "b", "c", "x", "z">>

\* String.prototype.toLowerCase
toLowerCase(str) ==
  [i \in 1..Len(str) |->
     IF \E k \in 1..Len(UpperCase) : UpperCase[k] = str[i]
       THEN LowerCase[CHOOSE k \in 1..Len(UpperCase) : UpperCase[k] = str[i]]
       ELSE str[i]]

\* String.prototype.includes
StringIncludes(str, part) ==
  \E i \in 0..Len(str) :
    i + Len(part) <= Len(str) /\ SubSeq(str, i + 1, i + Len(part)) = part

\* The value getDocumentUsers returns for the stored room `room' (NoRoom when
\* getRoom rejects: the catch block logs and nothing is returned).
getDocumentUsers_CaseSensitive(room, currentUser, text) ==
  IF room = NoRoom THEN Undefined
  ELSE LET users == SelectSeq(ObjectKeys(room.usersAccesses), LAMBDA email : email # currentUser)
       IN  [tag |-> "users",
            list |-> IF Len(text) > 0
                       THEN SelectSeq(users, LAMBDA email : StringIncludes(Chars[email], text))
                       ELSE users]

getDocumentUsers(room, currentUser, text) ==
  IF room = NoRoom THEN Undefined
  ELSE LET users == SelectSeq(ObjectKeys(room.usersAccesses), LAMBDA email : email # currentUser)
           lowerCaseText == toLowerCase(text)
       IN  [tag |-> "users",
            list |-> IF Len(text) > 0
                       THEN SelectSeq(users, LAMBDA email :
                              StringIncludes(toLowerCase(Chars[email]), lowerCaseText))
                       ELSE users]

\* The emails of seq, which lists none twice.
ListedOnce(seq) ==
  \A i, j \in 1..Len(seq) : seq[i] = seq[j] => i = j

\* For every current user and search text, getDocumentUsers lists once each
\* key of usersAccesses other than the current user that contains the text,
\* letter case aside, and no other email; all of them when the text is
\* empty, none when nothing matches.
ParticipantsMatch(room) ==
  \A currentUser \in Emails : \A text \in Texts :
    LET result == getDocumentUsers(room, currentUser, text)
        others == DOMAIN room.usersAccesses \ {currentUser}
        Matches(e) == \E i \in 0..(Len(Chars[e]) - Len(text)) :
                        \A k \in 1..Len(text) :
                          toLowerCase(<<Chars[e][i + k]>>) = toLowerCase(<<text[k]>>)
    IN  /\ result.tag = "users"
        /\ ListedOnce(result.list)
        /\ {result.list[i] : i \in 1..Len(result.list)}
             = IF text = <<>> THEN others ELSE {e \in others : Matches(e)}

\* C21: every step that stores a room or changes one leaves it such that
\* getDocumentUsers returns, for every current user and search text, exactly
\* the keys of usersAccesses other than the current user when the text is
\* empty, and exactly those that contain the text as a case-insensitive
\* substring otherwise; an empty list, not an error, when none does.
C21_ParticipantsFiltered ==
  [][\A r \in RoomIds :
       (rooms'[r] # rooms[r] /\ rooms'[r] # NoRoom)
       => ParticipantsMatch(rooms'[r])]_vars

\* A room shared with all three emails: for the current user a@x.com the
\* text "c@" finds C@x.com alone, "X." finds both others, "z" finds none.
C21_Witness ==
  \E r \in RoomIds :
    /\ rooms[r] # NoRoom
    /\ DOMAIN rooms[r].usersAccesses = Emails
    /\ getDocumentUsers(rooms[r], "a@x.com", <<"c", "@">>).list = <<"C@x.com">>
    /\ Len(getDocumentUsers(rooms[r], "a@x.com", <<"X", ".">>).list) = 2
    /\ getDocumentUsers(rooms[r], "a@x.com", <<"z">>).list = <<>>
    /\ Len(getDocumentUsers(rooms[r], "a@x.com", <<>>).list) = 2

\* ------------------------------------------------------------------ C22
\* The number of access writes the store accepted within invocation c.
AccessChanges(c) ==
  Cardinality({i \in 1..Len(c.io) : c.io[i] = [call |-> "updateRoom", ok |-> TRUE]})

\* C22: every access change that succeeded has emitted a notification
\* event: an updateDocumentAccess or removeCollaborator that has finished
\* has requested as many notifications as the store accepted access writes
\* from it.
C22_EveryChangeNotifies ==
  \A c \in Invocations("updateDocumentAccess") \cup Invocations("removeCollaborator") :
    c.pc = "done" => Len(c.emitted) = AccessChanges(c)

\* ---------------------------------------------- the document page in a tab
\* The users that sign in, the emails typed into the share dialog, and the
\* items of UserTypeSelector.
SignedIn == {a[2] : a \in ClerkAccounts}
ShareEmails == {"b@x.com"}
SelectorTypes == {"viewer", "editor"}

\* The call c as the handler `via' of the open page makes it.
From(c, via, awaited) ==
  [c EXCEPT !.via = via, !.currentUserType = tab.currentUserType,
            !.loadedTitle = tab.title, !.awaited = awaited]

\* The row of collaborator e shows "Owner" in place of the selector and the
\* Remove button.
OwnerRow(page, e) ==
  \E a \in ClerkAccounts : a[2] = e /\ a[1] = page.creatorId

\* /documents/[id] renders for the signed-in user: CollaborativeRoom, its
\* ShareModal with one Collaborator row per listed user, and the Editor.
LoadDocumentPage(r, email) ==
  /\ ~tab.open
  /\ rooms[r] # NoRoom
  /\ LET page == PageFor(rooms[r], email)
         listed == {page.users[i] : i \in 1..Len(page.users)}
     IN  /\ page.outcome = "render"
         /\ tab' = [ClosedTab EXCEPT
                      !.open = TRUE, !.roomId = r, !.email = email,
                      !.currentUserType = page.currentUserType,
                      !.title = rooms[r].metadata.title,
                      !.creatorId = rooms[r].metadata.creatorId,
                      !.titleEditor.documentTitle = rooms[r].metadata.title,
                      !.rows = [e \in {u.email : u \in listed} |->
                                  [userType |-> (CHOOSE u \in listed : u.email = e).userType,
                                   loading |-> FALSE]]]
  /\ UNCHANGED <<rooms, nanoCount, inbox, calls, last, started>>

\* The user leaves the page: its components unmount, and calls in flight run
\* on with nobody awaiting them.
ClosePage ==
  /\ tab.open
  /\ tab' = ClosedTab
  /\ calls' = [s \in Slots |-> [calls[s] EXCEPT !.awaited = FALSE]]
  /\ UNCHANGED <<rooms, nanoCount, inbox, last, started>>

\* The edit icon, rendered for an editor outside edit mode.
ClickEdit ==
  /\ tab.open
  /\ tab.currentUserType = "editor"
  /\ ~tab.titleEditor.editing
  /\ tab' = [tab EXCEPT !.titleEditor.editing = TRUE]
  /\ UNCHANGED <<rooms, nanoCount, inbox, calls, last, started>>

\* The title input, rendered in edit mode while nothing is being saved.
onChange(title) ==
  /\ tab.open
  /\ tab.titleEditor.editing
  /\ ~tab.titleEditor.loading
  /\ tab' = [tab EXCEPT !.titleEditor.documentTitle = title]
  /\ UNCHANGED <<rooms, nanoCount, inbox, calls, last, started>>

\* Enter in the title input: updateTitleHandler up to its await. With the
\* title the page was loaded with, loading is set and reset at once.
PressEnter(s) ==
  /\ tab.open
  /\ tab.titleEditor.editing
  /\ ~tab.titleEditor.loading
  /\ IF tab.titleEditor.documentTitle # tab.title
       THEN /\ Launch(s, From(updateDocument(tab.roomId, tab.titleEditor.documentTitle),
                              "updateTitleHandler", TRUE))
            /\ tab' = [tab EXCEPT !.titleEditor.loading = TRUE]
            /\ UNCHANGED <<rooms, nanoCount, inbox>>
       ELSE UNCHANGED vars

\* A mousedown anywhere outside the title container: the listener is
\* registered for every user and calls updateDocument without awaiting it.
MouseDownOutside(s) ==
  /\ tab.open
  /\ Launch(s, From(updateDocument(tab.roomId, tab.titleEditor.documentTitle),
                    "handleClickOutside", FALSE))
  /\ tab' = [tab EXCEPT !.titleEditor.editing = FALSE]
  /\ UNCHANGED <<rooms, nanoCount, inbox>>

\* "Share Access" in the share dialog, which only an editor can open, with
\* the email and the type entered: ShareModal's shareDocumentHandler up to
\* its await.
ShareModal_shareDocumentHandler(s, email, userType) ==
  /\ tab.open
  /\ tab.currentUserType = "editor"
  /\ ~tab.share.loading
  /\ Launch(s, From(updateDocumentAccess(tab.roomId, email, userType, tab.email),
                    "ShareModal.shareDocumentHandler", TRUE))
  /\ tab' = [tab EXCEPT !.share.loading = TRUE]
  /\ UNCHANGED <<rooms, nanoCount, inbox>>

\* An item chosen in the selector of collaborator e's row: accessChangeHandler
\* sets the row's userType and runs Collaborator's shareDocumentHandler up to
\* its await.
accessChangeHandler(s, e, type) ==
  /\ tab.open
  /\ tab.currentUserType = "editor"
  /\ e \in DOMAIN tab.rows
  /\ ~OwnerRow(tab, e)
  /\ Launch(s, From(updateDocumentAccess(tab.roomId, e, type, tab.email),
                    "Collaborator.shareDocumentHandler", TRUE))
  /\ tab' = [tab EXCEPT !.rows[e] = [userType |-> type, loading |-> TRUE]]
  /\ UNCHANGED <<rooms, nanoCount, inbox>>

\* "Remove" in collaborator e's row: removeCollaboratorHandler up to its
\* await.
removeCollaboratorHandler(s, e) ==
  /\ tab.open
  /\ tab.currentUserType = "editor"
  /\ e \in DOMAIN tab.rows
  /\ ~OwnerRow(tab, e)
  /\ Launch(s, From(removeCollaborator(tab.roomId, e), "removeCollaboratorHandler", TRUE))
  /\ tab' = [tab EXCEPT !.rows[e].loading = TRUE]
  /\ UNCHANGED <<rooms, nanoCount, inbox>>

\* "Delete" in the delete dialog, which the Editor renders for an editor:
\* deleteDocumentHandler up to its await.
ClickDelete(s) ==
  /\ tab.open
  /\ tab.currentUserType = "editor"
  /\ Launch(s, From(deleteDocument(tab.roomId), "deleteDocumentHandler", TRUE))
  /\ tab' = [tab EXCEPT !.deleteModal.open = TRUE, !.deleteModal.loading = TRUE]
  /\ UNCHANGED <<rooms, nanoCount, inbox>>

\* The external call that the invocation in slot s, of an action called on a
\* document, awaits answers or fails.
DocumentStep(s) ==
  \/ \E ok \in BOOLEAN : UpdateTitleStep(s, ok)
  \/ \E ok \in BOOLEAN : AccessWriteStep(s, ok)
  \/ \E ok \in BOOLEAN : AccessNotifyStep(s, ok)
  \/ \E ok \in BOOLEAN : RemoveGetStep(s, ok)
  \/ \E ok \in BOOLEAN, tombstones \in BOOLEAN : RemoveWriteStep(s, ok, tombstones)
  \/ \E ok \in BOOLEAN : DeleteStep(s, ok)

\* The external call the invocation in slot s awaits answers or fails.
ServerStep(s) ==
  \/ \E ok \in BOOLEAN : CreateRoomStep(s, ok)
  \/ DocumentStep(s)

\* One user at the document page in a tab, documents being created and
\* renamed by other clients meanwhile.
PageNext ==
  \E s \in Slots :
    \/ \E a \in Creators : StartCreateDocument(s, a[1], a[2])
    \/ \E r \in KnownRoomIds, t \in Titles : StartUpdateDocument(s, r, t)
    \/ ServerStep(s)
    \/ \E r \in KnownRoomIds, e \in SignedIn : LoadDocumentPage(r, e)
    \/ ClosePage
    \/ ClickEdit
    \/ \E t \in Titles : onChange(t)
    \/ PressEnter(s)
    \/ MouseDownOutside(s)
    \/ \E e \in ShareEmails, ut \in SelectorTypes : ShareModal_shareDocumentHandler(s, e, ut)
    \/ \E e \in SignedIn, ut \in SelectorTypes : accessChangeHandler(s, e, ut)
    \/ \E e \in SignedIn : removeCollaboratorHandler(s, e)
    \/ ClickDelete(s)

\* Every external call an invocation awaits is answered in the end.
PageSpec ==
  Init /\ [][PageNext]_vars /\ \A s \in Slots : WF_vars(ServerStep(s))


\* ------------------------------------------- the page of a shared document
\* The document user_a created and shared with b@x.com as viewer from the
\* share dialog, as the store holds it.
SharedRoom ==
  StoreUpdateRoom(StoreCreateRoom(1, CreateRoomData("user_a", "a@x.com")),
                  AccessPatch("b@x.com", "viewer"))

\* That share as it returned to the dialog: written, notified, revalidated.
SharedCall ==
  LET c0 == [updateDocumentAccess(1, "b@x.com", "viewer", "a@x.com") EXCEPT
               !.via = "ShareModal.shareDocumentHandler",
               !.currentUserType = "editor", !.loadedTitle = "Untitled",
               !.awaited = TRUE]
      c1 == [Did(c0, "updateRoom", TRUE) EXCEPT !.ret = SharedRoom]
      c2 == [Did(c1, "triggerInboxNotification", TRUE) EXCEPT
               !.emitted = <<AccessNotification(c1)>>]
  IN  ReturnValue(Revalidate(c2, DocumentPath(1)), SharedRoom)

\* user_a has created a document, shared it with b@x.com as viewer, left
\* the page and opened it again: the page lists both collaborators.
SharedInit ==
  /\ rooms = [r \in RoomIds |-> IF r = 1 THEN SharedRoom ELSE NoRoom]
  /\ nanoCount = 1
  /\ inbox = <<AccessNotification(SharedCall)>>
  /\ calls = [s \in Slots |-> Idle]
  /\ last = SharedCall
  /\ started = 2
  /\ tab = [ClosedTab EXCEPT
              !.open = TRUE, !.roomId = 1, !.email = "a@x.com",
              !.currentUserType = "editor", !.title = "Untitled",
              !.creatorId = "user_a",
              !.titleEditor.documentTitle = "Untitled",
              !.rows = [e \in {"a@x.com", "b@x.com"} |->
                          [userType |-> IF e = "a@x.com" THEN "editor" ELSE "viewer",
                           loading |-> FALSE]]]

\* The handlers of that page and of the pages opened after it.
SharedNext ==
  \/ \E s \in Slots :
       \/ DocumentStep(s)
       \/ PressEnter(s)
       \/ MouseDownOutside(s)
       \/ \E e \in ShareEmails, ut \in SelectorTypes :
            ShareModal_shareDocumentHandler(s, e, ut)
       \/ \E e \in SignedIn, ut \in SelectorTypes : accessChangeHandler(s, e, ut)
       \/ \E e \in SignedIn : removeCollaboratorHandler(s, e)
       \/ ClickDelete(s)
  \/ \E r \in KnownRoomIds, e \in SignedIn : LoadDocumentPage(r, e)
  \/ ClosePage
  \/ ClickEdit
  \/ \E t \in Titles : onChange(t)

\* Every external call an invocation awaits is answered in the end.
SharedSpec ==
  SharedInit /\ [][SharedNext]_vars /\ \A s \in Slots : WF_vars(DocumentStep(s))

\* ------------------------------------------------------------------ C23
MutatingStoreCalls == {"updateRoom", "deleteRoom"}

\* C23: no call made by a handler of a page that was rendered for a viewer
\* reaches a mutating store call: whatever the viewer does on the page, no
\* updateRoom and no deleteRoom is issued for it.
C23_ViewerNeverMutates ==
  \A c \in {calls[s] : s \in Slots} \cup {last} :
    (c.via # "" /\ c.currentUserType = "viewer")
    => \A i \in 1..Len(c.io) : c.io[i].call \notin MutatingStoreCalls

\* ------------------------------------------------------------------ C24
\* C24: when deleteRoom succeeds inside deleteDocument, '/' is revalidated,
\* the redirect to '/' leaves deleteDocument and reaches its caller, and
\* nothing is logged: the catch block is not entered.
C24_DeleteRedirects ==
  [][\A s \in Slots :
       (/\ At(s, "deleteDocument", "deleteRoom")
        /\ StepOf(s)
        /\ After(s).io = <<[call |-> "deleteRoom", ok |-> TRUE]>>)
       => /\ After(s).revalidated = {RootPath}
          /\ After(s).ret.tag = "throw"
          /\ After(s).ret.error = RedirectError
          /\ After(s).logged = <<>>]_vars

\* ------------------------------------------------------------------ C25
\* C25: a page on which no new title was typed never changes the stored
\* title: when the updateRoom of an updateDocument that a page handler
\* called with the title the page was loaded with succeeds, the stored title
\* is what it was before, also when another client has renamed the document
\* since the page was loaded.
C25_UntypedKeepsTitle ==
  [][\A s \in Slots :
       (/\ RenameWrote(s)
        /\ calls[s].via # ""
        /\ calls[s].title = calls[s].loadedTitle)
       => rooms'[calls[s].roomId].metadata.title
            = rooms[calls[s].roomId].metadata.title]_vars

\* ------------------------------------------------------------------ C26
\* C26: once removeCollaborator has removed the grant of an email, the
\* access test of getDocument fails for that email on the room as stored,
\* so that every getDocument for it is denied until a grant is written
\* again, whether the store dropped the key or kept it with a null grant.
C26_RemovedIsDenied ==
  [][\A s \in Slots :
       (/\ At(s, "removeCollaborator", "updateRoom")
        /\ StepOf(s)
        /\ After(s).io[2] = [call |-> "updateRoom", ok |-> TRUE])
       => ~hasAccess(rooms'[calls[s].roomId], calls[s].email)]_vars

\* ------------------------------------------------------------------ C27
\* The step of slot s ends a role change that the row of its email awaits.
RoleChangeEnds(s) ==
  /\ calls[s].via = "Collaborator.shareDocumentHandler"
  /\ calls[s].awaited
  /\ StepOf(s)
  /\ After(s).pc = "done"

\* C27: when a role change started from a collaborator's row ends, on a
\* document that is still stored, the row is no longer loading and its
\* selector shows the type that the stored grant of that email gives,
\* whether the access write succeeded or failed.
C27_SelectorShowsStoredRole ==
  [][\A s \in Slots :
       (RoleChangeEnds(s) /\ rooms'[calls[s].roomId] # NoRoom)
       => /\ ~tab'.rows[calls[s].email].loading
          /\ tab'.rows[calls[s].email].userType
               = UserTypeOf(rooms'[calls[s].roomId], calls[s].email)]_vars

\* ------------------------------------------------------------------ C28
\* The step of slot s is an access write the store accepted.
AccessWrote(s) ==
  /\ calls[s].op \in {"updateDocumentAccess", "removeCollaborator"}
  /\ calls[s].pc = "updateRoom"
  /\ StepOf(s)
  /\ After(s).io[Len(After(s).io)] = [call |-> "updateRoom", ok |-> TRUE]

\* Every email but `email' is listed after as before, with the same grant.
OtherGrantsKept(before, after, email) ==
  \A e \in Emails \ {email} :
    /\ e \in DOMAIN before <=> e \in DOMAIN after
    /\ e \in DOMAIN before => after[e] = before[e]

\* The invocation in slot t is about to write the grant of another email
\* than c's in the same room.
PendingOtherWrite(t, c) ==
  /\ calls[t].op \in {"updateDocumentAccess", "removeCollaborator"}
  /\ calls[t].pc = "updateRoom"
  /\ calls[t].roomId = c.roomId
  /\ calls[t].email # c.email

\* C28: an access write of updateDocumentAccess or removeCollaborator that
\* the store accepts changes the key of its own email only, to the grant
\* written or to none, and it commutes with every access write for another
\* email that is in flight on the same room: the two writes leave the same
\* usersAccesses in either order.
C28_DistinctEmailsCommute ==
  [][\A s \in Slots :
       AccessWrote(s) =>
         LET c == calls[s]
             before == rooms[c.roomId]
             after == rooms'[c.roomId]
         IN  /\ OtherGrantsKept(before.usersAccesses, after.usersAccesses, c.email)
             /\ IF c.op = "updateDocumentAccess"
                  THEN /\ c.email \in DOMAIN after.usersAccesses
                       /\ after.usersAccesses[c.email] = getAccessType(c.userType)
                  ELSE \/ c.email \notin DOMAIN after.usersAccesses
                       \/ after.usersAccesses[c.email] = Null
             /\ \A t \in Slots \ {s} :
                  PendingOtherWrite(t, c) =>
                    \A mine, theirs \in BOOLEAN :
                      StoreUpdateRoomAs(before, c.patch, mine) = after
                      => StoreUpdateRoomAs(after, calls[t].patch, theirs).usersAccesses
                           = StoreUpdateRoomAs(
                               StoreUpdateRoomAs(before, calls[t].patch, theirs),
                               c.patch, mine).usersAccesses]_vars

\* A grant for one email and a removal for another overlapped and both were
\* written: the grant has written and awaits its notification, the removal
\* has returned the updated room.
C28_Witness ==
  \E s \in Slots :
    /\ At(s, "updateDocumentAccess", "triggerInboxNotification")
    /\ last.op = "removeCollaborator"
    /\ last.io = <<[call |-> "getRoom", ok |-> TRUE], [call |-> "updateRoom", ok |-> TRUE]>>
    /\ last.roomId = calls[s].roomId
    /\ last.email # calls[s].email
    /\ Live(last)
    /\ HoldsWrite(rooms[last.roomId], calls[s].email)
    /\ ~HoldsWrite(rooms[last.roomId], last.email)

\* ------------------------------------------------------------------ C29
\* C29: a room is created with empty defaultAccesses and with the user id
\* and the email given to createDocument as creatorId and email, and no
\* step on a room that stays stored changes any of the three: not a rename,
\* not a grant, not a removal.
C29_CreationFieldsFixed ==
  [][\A r \in RoomIds :
       /\ (rooms[r] = NoRoom /\ rooms'[r] # NoRoom)
          => \E s \in Slots :
               /\ At(s, "createDocument", "createRoom")
               /\ rooms'[r].defaultAccesses = <<>>
               /\ rooms'[r].metadata.creatorId = calls[s].userId
               /\ rooms'[r].metadata.email = calls[s].email
       /\ (rooms[r] # NoRoom /\ rooms'[r] # NoRoom)
          => /\ rooms'[r].defaultAccesses = rooms[r].defaultAccesses
             /\ rooms'[r].metadata.creatorId = rooms[r].metadata.creatorId
             /\ rooms'[r].metadata.email = rooms[r].metadata.email]_vars

\* A room that was renamed and shared after its creation by user_a.
C29_Witness ==
  \E r \in RoomIds :
    /\ rooms[r] # NoRoom
    /\ rooms[r].metadata.title = "Plan"
    /\ "b@x.com" \in DOMAIN rooms[r].usersAccesses
    /\ rooms[r].defaultAccesses = <<>>
    /\ rooms[r].metadata.creatorId = "user_a"
    /\ rooms[r].metadata.email = "a@x.com"

\* ------------------------------------------------------------------ C30
\* The row of collaborator e shows "updating...".
RowLoading(e) == e \in DOMAIN tab.rows /\ tab.rows[e].loading

\* C30: with every awaited external call answered in the end, each loading
\* flag a handler of the page has set is reset: the title editor's, the
\* share dialog's, each collaborator row's and the delete dialog's, whether
\* the server action succeeded or failed.
C30_LoadingEnds ==
  /\ tab.titleEditor.loading ~> ~tab.titleEditor.loading
  /\ tab.share.loading ~> ~tab.share.loading
  /\ tab.deleteModal.loading ~> ~tab.deleteModal.loading
  /\ \A e \in SignedIn : RowLoading(e) ~> ~RowLoading(e)

\* A rename by Enter has failed: updateDocument threw while the page awaited
\* it, the handler logged the error, and loading is false again on the page
\* that is still open.
C30_Witness ==
  /\ last.via = "updateTitleHandler"
  /\ last.awaited
  /\ last.pc = "done"
  /\ last.ret.tag = "throw"
  /\ tab.open
  /\ tab.titleEditor.consoleError = <<StoreError>>
  /\ ~tab.titleEditor.loading
====
